---------------------------- MODULE Spec2Model ----------------------------
(***************************************************************************)
(* Octree Marching Cubes builder (TreeMeshBuilder).                        *)
(*                                                                         *)
(* Numbers.  The program computes in float.  The model computes in exact   *)
(* fixed-point integers: a grid length (pos, gridSize, halfGridSize) and a *)
(* world length (point coordinates, mIsoLevel, edgeSize) are counted in    *)
(* ticks, Unit ticks to 1.0.  mGridResolution is a plain integer factor.   *)
(* Halving a length is exact in float; Unit is chosen so that it is exact  *)
(* in ticks too: 2 for a power-of-two grid, where the smallest length is   *)
(* half a unit cell, and 2^(MaxDepth+1) for any other grid, where a cell   *)
(* MaxDepth halvings down still has its centre on a whole tick.            *)
(* evaluateFieldAt ends in sqrt(value); a square root is not an integer,   *)
(* so the model carries the field value as its square (value, in ticks^2)  *)
(* and every comparison of the program is made on the squares, which is    *)
(* the same comparison because all operands are non-negative.              *)
(***************************************************************************)
EXTENDS Integers, Sequences, FiniteSets, Bags, TLC

(* ------------------------------ bounds -------------------------------- *)
\* grid edge sizes are 2^0 .. 2^MaxLog2
MaxLog2 == 2
\* a point set holds at most MaxPoints points
MaxPoints == 2
\* point coordinates are CoordStep * (0 .. MaxCoord) ticks
MaxCoord == 1
\* isolevels are 0 .. MaxIso ticks
MaxIso == 2
\* mGridResolution is 1 .. MaxRes
MaxRes == 2
\* marchCubes is invoked at most MaxBuilds times on one builder
MaxBuilds == 2
\* threads calling emitTriangle concurrently
NumThreads == 2
\* emitTriangle calls of each such thread
EmitCalls == 2
\* positions evaluateFieldAt is called at on its own: (0 .. MaxEvalCoord)^3
MaxEvalCoord == 2
\* the recursion is followed down to MaxDepth halvings of the grid edge
MaxDepth == 3

\* distance between two neighbouring candidate point coordinates, in half
\* cells
CoordStep == 3

(* ------------------------ program constants --------------------------- *)
\* sqrt3Div2 = 0.86602540378f, carried as its square 3/4
sqrt3Div2SqNum == 3
sqrt3Div2SqDen == 4
\* std::numeric_limits<float>::max(): above every squared distance of the
\* model (ticks^2)
FltMax == 268435456

\* the 8 corners of the unit cube
sc_vertexNormPos ==
  << <<0, 0, 0>>, <<1, 0, 0>>, <<1, 1, 0>>, <<0, 1, 0>>,
     <<0, 0, 1>>, <<1, 0, 1>>, <<1, 1, 1>>, <<0, 1, 1>> >>

VARIABLES
  field,            \* the point set: a sequence of points (world ticks)
  mIsoLevel,        \* world ticks
  mGridResolution,  \* world length of one grid cell
  mGridSize,        \* grid edge size, in cells
  mTriangles,       \* the triangle buffer
  stack,            \* the treeTraversal call frames, root first
  pc,               \* "idle", "running" (inside marchCubes), "done"
  result,           \* the value the last marchCubes returned
  builds,           \* number of marchCubes calls so far
  calls,            \* what the running build has done so far
  tpc,              \* concurrent callers of emitTriangle: where each one is
  critical,         \* the thread inside `omp critical', 0 when none is
  tn,               \* push_back of each caller: the size it has read
  todo,             \* emitTriangle calls each caller still has to make
  ev                \* the last evaluateFieldAt call made on its own

vars == <<field, mIsoLevel, mGridResolution, mGridSize, mTriangles, stack,
          pc, result, builds, calls, tpc, critical, tn, todo, ev>>

emitVars == <<tpc, critical, tn, todo>>
buildVars == <<field, mIsoLevel, mGridResolution, mGridSize, stack, pc,
               result, builds>>

(* ------------------------- fixed-point scale -------------------------- *)
IsPowerOfTwo(n) == \E k \in 0 .. n : 2 ^ k = n

\* ticks per 1.0
Unit == IF IsPowerOfTwo(mGridSize) THEN 2 ELSE 2 ^ (MaxDepth + 1)

\* a cutoff of 0.5
gridSizeCutoff_half == Unit \div 2

\* gridSizeCutoff = 1.0f, in ticks
gridSizeCutoff == Unit

(* ---------------------------- input sets ------------------------------ *)
GridSizes == {2 ^ k : k \in 0 .. MaxLog2}
Coords == {CoordStep * k : k \in 0 .. MaxCoord}
\* candidate points: on the diagonal, and one on the x axis
PointCands ==
  {<<c, c, c>> : c \in Coords} \cup {<<CoordStep * MaxCoord, 0, 0>>}

\* p before q in the lexicographic order
Before(p, q) ==
  \/ p[1] < q[1]
  \/ p[1] = q[1] /\ p[2] < q[2]
  \/ p[1] = q[1] /\ p[2] = q[2] /\ p[3] < q[3]

\* the point sets: up to MaxPoints distinct candidates, listed in order
PointSets ==
  {s \in UNION {[1 .. n -> PointCands] : n \in 0 .. MaxPoints} :
     \A i \in DOMAIN s : \A j \in DOMAIN s : i < j => Before(s[i], s[j])}

Min(a, b) == IF a < b THEN a ELSE b

(* ------------------------- evaluateFieldAt ---------------------------- *)
distanceSquared(pos, p) ==
  (pos[1] - p[1]) * (pos[1] - p[1])
  + (pos[2] - p[2]) * (pos[2] - p[2])
  + (pos[3] - p[3]) * (pos[3] - p[3])

\* the distance to the point at hand stored without the minimum
RECURSIVE evalLoop_noMin(_, _, _, _)
evalLoop_noMin(pos, pPoints, i, value) ==
  IF i > Len(pPoints) THEN value
  ELSE evalLoop_noMin(pos, pPoints, i + 1, distanceSquared(pos, pPoints[i]))

RECURSIVE evalLoop(_, _, _, _)
evalLoop(pos, pPoints, i, value) ==
  IF i > Len(pPoints) THEN value
  ELSE evalLoop(pos, pPoints, i + 1,
                Min(value, distanceSquared(pos, pPoints[i])))

\* the running minimum started at 0 instead of the maximum
evaluateFieldAt_zeroInit(pos, fld) == evalLoop(pos, fld, 1, 0)

\* the square of the value the program returns
evaluateFieldAt(pos, fld) == evalLoop(pos, fld, 1, FltMax)

(* --------------------------- treeTraversal ---------------------------- *)
\* one cell less instead of half
halfGridSizeOf_minusOne(gridSize) == gridSize - Unit

halfGridSizeOf(gridSize) == gridSize \div 2

cubeCenter3D(pos, gridSize, res) ==
  <<(pos[1] + halfGridSizeOf(gridSize)) * res,
    (pos[2] + halfGridSizeOf(gridSize)) * res,
    (pos[3] + halfGridSizeOf(gridSize)) * res>>

edgeSizeOf(gridSize, res) == gridSize * res

\* sqrt(valueSq) > iso + sqrt3Div2 * edge, for iso >= 0 and edge >= 0.
\* Squared: valueSq > iso^2 + 2 * sqrt3Div2 * iso * edge + (3/4) * edge^2.
\* With L = 4 * valueSq - 4 * iso^2 - 3 * edge^2 that is
\* L > 2 * sqrt(3 * 4) * iso * edge, and squared once more, L > 0 and
\* L^2 > 4 * 3 * 4 * (iso * edge)^2 = R.  R stays below 2^31, so an L of
\* 46341 or more exceeds its root.
\* the radius taken as half the edge (the inscribed sphere) instead
exceedsThreshold_inscribed(valueSq, iso, edge) ==
  LET L == 4 * valueSq - 4 * iso * iso - edge * edge
      R == 16 * (iso * edge) * (iso * edge)
  IN  IF L <= 0 THEN FALSE ELSE IF L >= 46341 THEN TRUE ELSE L * L > R

\* the radius taken as the whole edge instead
exceedsThreshold_fullEdge(valueSq, iso, edge) ==
  LET L == valueSq - iso * iso - edge * edge
      R == 4 * (iso * edge) * (iso * edge)
  IN  IF L <= 0 THEN FALSE ELSE IF L >= 46341 THEN TRUE ELSE L * L > R

\* the comparison with >= in place of >
exceedsThreshold_nonstrict(valueSq, iso, edge) ==
  LET L == sqrt3Div2SqDen * valueSq - sqrt3Div2SqDen * iso * iso
           - sqrt3Div2SqNum * edge * edge
      R == 4 * sqrt3Div2SqNum * sqrt3Div2SqDen * (iso * edge) * (iso * edge)
  IN  IF L < 0 THEN FALSE ELSE IF L >= 46341 THEN TRUE ELSE L * L >= R

exceedsThreshold(valueSq, iso, edge) ==
  LET L == sqrt3Div2SqDen * valueSq - sqrt3Div2SqDen * iso * iso
           - sqrt3Div2SqNum * edge * edge
      R == 4 * sqrt3Div2SqNum * sqrt3Div2SqDen * (iso * edge) * (iso * edge)
  IN  IF L <= 0 THEN FALSE ELSE IF L >= 46341 THEN TRUE ELSE L * L > R

\* line 38
pruneTest(pos, gridSize, fld, iso, res) ==
  exceedsThreshold(evaluateFieldAt(cubeCenter3D(pos, gridSize, res), fld),
                   iso, edgeSizeOf(gridSize, res))

\* the corner offset scaled by the whole edge instead of half of it
newPos_fullOffset(pos, gridSize, i) ==
  <<pos[1] + gridSize * sc_vertexNormPos[i][1],
    pos[2] + gridSize * sc_vertexNormPos[i][2],
    pos[3] + gridSize * sc_vertexNormPos[i][3]>>

\* lines 47-49
newPos(pos, gridSize, i) ==
  <<pos[1] + halfGridSizeOf(gridSize) * sc_vertexNormPos[i][1],
    pos[2] + halfGridSizeOf(gridSize) * sc_vertexNormPos[i][2],
    pos[3] + halfGridSizeOf(gridSize) * sc_vertexNormPos[i][3]>>

(* ----------------------------- buildCube ------------------------------ *)
\* corner i of the unit cell at pos, in world ticks
cubeCorner(pos, i, res) ==
  <<(pos[1] + Unit * sc_vertexNormPos[i][1]) * res,
    (pos[2] + Unit * sc_vertexNormPos[i][2]) * res,
    (pos[3] + Unit * sc_vertexNormPos[i][3]) * res>>

\* the corners whose field value is below the isolevel
cubeIndex(pos, fld, iso, res) ==
  {i \in 1 .. 8 : evaluateFieldAt(cubeCorner(pos, i, res), fld) < iso * iso}

\* number of triangles of a corner configuration: none when all corners are
\* on one side of the surface, at most 5 otherwise
triangleCount(idx) ==
  LET k == Cardinality(idx)
  IN  IF k = 0 \/ k = 8 THEN 0 ELSE Min(k, 8 - k) + (IF k = 4 THEN 1 ELSE 0)

buildCube(pos, fld, iso, res) == triangleCount(cubeIndex(pos, fld, iso, res))

\* the j-th triangle buildCube emits for the cell at pos
Triangle(pos, j) == <<pos, j>>

(* ---------------------------- emitTriangle ---------------------------- *)
\* the triangle stored over the last element instead of behind it
emitTriangle_overwrite(buf, triangle) ==
  IF buf = << >> THEN <<triangle>>
  ELSE [buf EXCEPT ![Len(buf)] = triangle]

emitTriangle(buf, triangle) == Append(buf, triangle)

(* --------------------------- the call stack --------------------------- *)
Frame(pos, gridSize) ==
  [pos |-> pos, gridSize |-> gridSize, at |-> "test", i |-> 0,
   totalTriangles |-> 0, cube |-> 0, emitted |-> 0]

Top == stack[Len(stack)]
Running == pc = "running" /\ Len(stack) > 0
SetTop(f) == [stack EXCEPT ![Len(stack)] = f]

\* the bookkeeping of one build: treeTraversal calls started and returned,
\* cells pruned, buildCube calls started and returned, the sum of the counts
\* buildCube returned, emitTriangle calls, the length of mTriangles when the
\* build started, the deepest recursion level reached (root = 0), the
\* number of steps taken, the cells larger than a unit cell that were
\* pruned, the cells that were subdivided, the origins of the cells
\* buildCube was called on
NoCalls == [traversal |-> 0, returned |-> 0, pruned |-> 0, buildCube |-> 0,
            cubeReturned |-> 0, cubeSum |-> 0, emit |-> 0, start |-> 0,
            depth |-> 0, steps |-> 0, prunedLarge |-> 0, subdivided |-> 0,
            cubes |-> {}]

\* the caller's total set to the returned count instead of increased by it
Return_overwrite(v, c) ==
  /\ calls' = [c EXCEPT !.returned = @ + 1, !.steps = @ + 1]
  /\ IF Len(stack) = 1
     THEN /\ stack' = << >>
          /\ result' = v
          /\ pc' = "done"
     ELSE /\ stack' = [SubSeq(stack, 1, Len(stack) - 1)
                        EXCEPT ![Len(stack) - 1] =
                          [@ EXCEPT !.totalTriangles = v, !.i = @ + 1]]
          /\ UNCHANGED <<result, pc>>

\* `return v' of the top frame: back into line 51 of the caller, or out of
\* marchCubes (lines 66-68) when the frame is the root
Return(v, c) ==
  /\ calls' = [c EXCEPT !.returned = @ + 1, !.steps = @ + 1]
  /\ IF Len(stack) = 1
     THEN /\ stack' = << >>
          /\ result' = v
          /\ pc' = "done"
     ELSE /\ stack' = [SubSeq(stack, 1, Len(stack) - 1)
                        EXCEPT ![Len(stack) - 1] =
                          [@ EXCEPT !.totalTriangles = @ + v, !.i = @ + 1]]
          /\ UNCHANGED <<result, pc>>

Threads == 1 .. NumThreads

\* no evaluateFieldAt call made on its own yet
NoEval == [called |-> FALSE, pos |-> <<0, 0, 0>>, value |-> 0]

Init ==
  /\ field \in PointSets
  /\ mIsoLevel \in 0 .. MaxIso
  /\ mGridResolution \in 1 .. MaxRes
  /\ mGridSize \in GridSizes
  /\ mTriangles = << >>
  /\ stack = << >>
  /\ pc = "idle"
  /\ result = 0
  /\ builds = 0
  /\ calls = NoCalls
  /\ tpc = [t \in Threads |-> "idle"]
  /\ critical = 0
  /\ tn = [t \in Threads |-> 0]
  /\ todo = [t \in Threads |-> 0]
  /\ ev = NoEval

\* marchCubes, lines 64-66: the call of treeTraversal on the root cell
MarchCubes ==
  /\ pc \in {"idle", "done"}
  /\ builds < MaxBuilds
  /\ builds' = builds + 1
  /\ pc' = "running"
  /\ stack' = <<Frame(sc_vertexNormPos[1], mGridSize * Unit)>>
  /\ calls' = [NoCalls EXCEPT !.traversal = 1, !.start = Len(mTriangles)]
  /\ UNCHANGED <<field, mIsoLevel, mGridResolution, mGridSize, mTriangles,
                 result>>
  /\ UNCHANGED <<emitVars, ev>>

\* lines 38-40
Prune ==
  /\ Running
  /\ Top.at = "test"
  /\ pruneTest(Top.pos, Top.gridSize, field, mIsoLevel, mGridResolution)
  /\ Return(0, [calls EXCEPT !.pruned = @ + 1,
                             !.prunedLarge =
                               IF Top.gridSize = Unit THEN @ ELSE @ + 1])
  /\ UNCHANGED <<field, mIsoLevel, mGridResolution, mGridSize, mTriangles,
                 builds>>
  /\ UNCHANGED <<emitVars, ev>>

\* buildCube called on every cell of edge 1 or less
BuildCube_lessOrEqual ==
  /\ Running
  /\ Top.at = "test"
  /\ ~pruneTest(Top.pos, Top.gridSize, field, mIsoLevel, mGridResolution)
  /\ Top.gridSize <= gridSizeCutoff
  /\ stack' = SetTop([Top EXCEPT !.at = "cube",
                        !.cube = buildCube(Top.pos, field, mIsoLevel,
                                           mGridResolution)])
  /\ calls' = [calls EXCEPT !.buildCube = @ + 1, !.steps = @ + 1,
                            !.cubes = @ \cup {Top.pos}]
  /\ UNCHANGED <<field, mIsoLevel, mGridResolution, mGridSize, mTriangles,
                 pc, result, builds>>
  /\ UNCHANGED <<emitVars, ev>>

\* lines 43-44: the call of buildCube
BuildCube ==
  /\ Running
  /\ Top.at = "test"
  /\ ~pruneTest(Top.pos, Top.gridSize, field, mIsoLevel, mGridResolution)
  /\ Top.gridSize = gridSizeCutoff
  /\ stack' = SetTop([Top EXCEPT !.at = "cube",
                        !.cube = buildCube(Top.pos, field, mIsoLevel,
                                           mGridResolution)])
  /\ calls' = [calls EXCEPT !.buildCube = @ + 1, !.steps = @ + 1,
                            !.cubes = @ \cup {Top.pos}]
  /\ UNCHANGED <<field, mIsoLevel, mGridResolution, mGridSize, mTriangles,
                 pc, result, builds>>
  /\ UNCHANGED <<emitVars, ev>>

\* one emitTriangle call made by the running buildCube
EmitTriangle ==
  /\ Running
  /\ Top.at = "cube"
  /\ Top.emitted < Top.cube
  /\ mTriangles' = emitTriangle(mTriangles, Triangle(Top.pos, Top.emitted + 1))
  /\ stack' = SetTop([Top EXCEPT !.emitted = @ + 1])
  /\ calls' = [calls EXCEPT !.emit = @ + 1, !.steps = @ + 1]
  /\ UNCHANGED <<field, mIsoLevel, mGridResolution, mGridSize, pc, result,
                 builds>>
  /\ UNCHANGED <<emitVars, ev>>

\* lines 44 and 55: buildCube returns, its count is added and returned
CubeReturn ==
  /\ Running
  /\ Top.at = "cube"
  /\ Top.emitted = Top.cube
  /\ Return(Top.totalTriangles + Top.cube,
            [calls EXCEPT !.cubeSum = @ + Top.cube, !.cubeReturned = @ + 1])
  /\ UNCHANGED <<field, mIsoLevel, mGridResolution, mGridSize, mTriangles,
                 builds>>
  /\ UNCHANGED <<emitVars, ev>>

\* line 45: the cell is neither pruned nor a unit cell; enter the loop
Subdivide ==
  /\ Running
  /\ Top.at = "test"
  /\ ~pruneTest(Top.pos, Top.gridSize, field, mIsoLevel, mGridResolution)
  /\ Top.gridSize # gridSizeCutoff
  /\ stack' = SetTop([Top EXCEPT !.at = "loop"])
  /\ calls' = [calls EXCEPT !.steps = @ + 1, !.subdivided = @ + 1]
  /\ UNCHANGED <<field, mIsoLevel, mGridResolution, mGridSize, mTriangles,
                 pc, result, builds>>
  /\ UNCHANGED <<emitVars, ev>>

\* lines 46-51: the recursive call for child i
CallChild ==
  /\ Running
  /\ Top.at = "loop"
  /\ Top.i < 8
  /\ Len(stack) <= MaxDepth
  /\ stack' = Append(stack, Frame(newPos(Top.pos, Top.gridSize, Top.i + 1),
                                  halfGridSizeOf(Top.gridSize)))
  /\ calls' = [calls EXCEPT !.traversal = @ + 1, !.steps = @ + 1,
                            !.depth = IF Len(stack) > @ THEN Len(stack) ELSE @]
  /\ UNCHANGED <<field, mIsoLevel, mGridResolution, mGridSize, mTriangles,
                 pc, result, builds>>
  /\ UNCHANGED <<emitVars, ev>>

\* the return taken after seven children
LoopReturn_seven ==
  /\ Running
  /\ Top.at = "loop"
  /\ Top.i >= 7
  /\ Return(Top.totalTriangles, calls)
  /\ UNCHANGED <<field, mIsoLevel, mGridResolution, mGridSize, mTriangles,
                 builds>>
  /\ UNCHANGED <<emitVars, ev>>

\* the return waiting for a ninth child result
LoopReturn_ninth ==
  /\ Running
  /\ Top.at = "loop"
  /\ Top.i = 9
  /\ Return(Top.totalTriangles, calls)
  /\ UNCHANGED <<field, mIsoLevel, mGridResolution, mGridSize, mTriangles,
                 builds>>
  /\ UNCHANGED <<emitVars, ev>>

\* line 55 after the loop
LoopReturn ==
  /\ Running
  /\ Top.at = "loop"
  /\ Top.i = 8
  /\ Return(Top.totalTriangles, calls)
  /\ UNCHANGED <<field, mIsoLevel, mGridResolution, mGridSize, mTriangles,
                 builds>>
  /\ UNCHANGED <<emitVars, ev>>

Next ==
  \/ MarchCubes
  \/ Prune
  \/ BuildCube
  \/ EmitTriangle
  \/ CubeReturn
  \/ Subdivide
  \/ CallChild
  \/ LoopReturn

Spec == Init /\ [][Next]_vars

\* the steps of a running build; the calling thread keeps executing them
Step ==
  \/ Prune
  \/ BuildCube
  \/ EmitTriangle
  \/ CubeReturn
  \/ Subdivide
  \/ CallChild
  \/ LoopReturn

FairSpec == Spec /\ WF_vars(Step)

TypeOK ==
  /\ pc \in {"idle", "running", "done"}
  /\ (pc = "running") = (Len(stack) > 0)

(* ===================================================================== *)
(* emitTriangle under concurrent callers (lines 99-108): NumThreads       *)
(* threads each make EmitCalls calls.  `omp critical' admits one thread;  *)
(* push_back reads the size, stores the element behind it and sets the    *)
(* new size.                                                              *)
(* ===================================================================== *)
\* the triangle a thread passes in the call it makes with k calls to go
ThreadTriangle(t, k) == <<<<t, t, t>>, k>>

EmitInit ==
  /\ field = << >>
  /\ mIsoLevel = 0
  /\ mGridResolution = 1
  /\ mGridSize = 1
  /\ mTriangles \in {<< >>, <<Triangle(<<0, 0, 0>>, 1)>>}
  /\ stack = << >>
  /\ pc = "idle"
  /\ result = 0
  /\ builds = 0
  /\ calls = [NoCalls EXCEPT !.start = Len(mTriangles)]
  /\ tpc = [t \in Threads |-> "idle"]
  /\ critical = 0
  /\ tn = [t \in Threads |-> 0]
  /\ todo = [t \in Threads |-> EmitCalls]
  /\ ev = NoEval

\* line 99: a thread calls emitTriangle
EmitCall(t) ==
  /\ tpc[t] = "idle"
  /\ todo[t] > 0
  /\ tpc' = [tpc EXCEPT ![t] = "enter"]
  /\ UNCHANGED <<buildVars, ev, calls, mTriangles, critical, tn, todo>>

\* the critical region entered with no regard to who is inside
CriticalEnter_unguarded(t) ==
  /\ tpc[t] = "enter"
  /\ critical' = t
  /\ tpc' = [tpc EXCEPT ![t] = "size"]
  /\ UNCHANGED <<buildVars, ev, calls, mTriangles, tn, todo>>

\* line 106: the thread enters the critical region when it is free
CriticalEnter(t) ==
  /\ tpc[t] = "enter"
  /\ critical = 0
  /\ critical' = t
  /\ tpc' = [tpc EXCEPT ![t] = "size"]
  /\ UNCHANGED <<buildVars, ev, calls, mTriangles, tn, todo>>

\* line 107, push_back: read the size
PushBackSize(t) ==
  /\ tpc[t] = "size"
  /\ tn' = [tn EXCEPT ![t] = Len(mTriangles)]
  /\ tpc' = [tpc EXCEPT ![t] = "store"]
  /\ UNCHANGED <<buildVars, ev, calls, mTriangles, critical, todo>>

\* line 107, push_back: store the element behind the size read and set
\* the size to one more
PushBackStore(t) ==
  /\ tpc[t] = "store"
  /\ mTriangles' =
       emitTriangle(SubSeq(mTriangles, 1, Min(tn[t], Len(mTriangles))),
                    ThreadTriangle(t, todo[t]))
  /\ tpc' = [tpc EXCEPT ![t] = "leave"]
  /\ UNCHANGED <<buildVars, ev, calls, critical, tn, todo>>

\* the end of the critical region and the return of emitTriangle
CriticalLeave(t) ==
  /\ tpc[t] = "leave"
  /\ critical' = IF critical = t THEN 0 ELSE critical
  /\ tpc' = [tpc EXCEPT ![t] = "idle"]
  /\ todo' = [todo EXCEPT ![t] = @ - 1]
  /\ UNCHANGED <<buildVars, ev, calls, mTriangles, tn>>

EmitNext ==
  \E t \in Threads :
    \/ EmitCall(t)
    \/ CriticalEnter(t)
    \/ PushBackSize(t)
    \/ PushBackStore(t)
    \/ CriticalLeave(t)

EmitSpec == EmitInit /\ [][EmitNext]_vars

(* ===================================================================== *)
(* marchCubes on a grid of any edge size: the powers of two and the sizes *)
(* 3 and 6.  mGridSize is an unsigned the caller sets; line 64 casts it   *)
(* to float whatever its value.                                           *)
(* ===================================================================== *)
OtherGridSizes == {3, 6}

\* the point one cell beyond the grid, level with its centre
FarPoint ==
  <<(mGridSize + 1) * Unit, (mGridSize * Unit) \div 2,
    (mGridSize * Unit) \div 2>>

AnyGridInit ==
  /\ mGridSize \in GridSizes \cup OtherGridSizes
  /\ mGridResolution = 1
  /\ mIsoLevel \in {0, Unit \div 2}
  /\ field \in {<< >>, << <<0, 0, 0>> >>, <<FarPoint>>}
  /\ mTriangles = << >>
  /\ stack = << >>
  /\ pc = "idle"
  /\ result = 0
  /\ builds = 0
  /\ calls = NoCalls
  /\ tpc = [t \in Threads |-> "idle"]
  /\ critical = 0
  /\ tn = [t \in Threads |-> 0]
  /\ todo = [t \in Threads |-> 0]
  /\ ev = NoEval

AnyGridSpec == AnyGridInit /\ [][Next]_vars

(* ===================================================================== *)
(* evaluateFieldAt called on its own (lines 71-97), at any position of a  *)
(* small lattice, on a builder whose buffer may hold a triangle.          *)
(* ===================================================================== *)
EvalPositions ==
  {<<x, y, z>> : x \in 0 .. MaxEvalCoord, y \in 0 .. MaxEvalCoord,
                 z \in 0 .. MaxEvalCoord}

EvalInit ==
  /\ field \in PointSets
  /\ mIsoLevel = 0
  /\ mGridResolution = 1
  /\ mGridSize = 1
  /\ mTriangles \in {<< >>, <<Triangle(<<0, 0, 0>>, 1)>>}
  /\ stack = << >>
  /\ pc = "idle"
  /\ result = 0
  /\ builds = 0
  /\ calls = NoCalls
  /\ tpc = [t \in Threads |-> "idle"]
  /\ critical = 0
  /\ tn = [t \in Threads |-> 0]
  /\ todo = [t \in Threads |-> 0]
  /\ ev = NoEval

\* one call evaluateFieldAt(pos, field): it reads pos and the points and
\* writes its own locals only
EvaluateFieldAt(pos) ==
  /\ ev' = [called |-> TRUE, pos |-> pos,
            value |-> evaluateFieldAt(pos, field)]
  /\ UNCHANGED <<buildVars, emitVars, calls, mTriangles>>

EvalNext == \E pos \in EvalPositions : EvaluateFieldAt(pos)

EvalSpec == EvalInit /\ [][EvalNext]_vars

(* ===================================================================== *)
(* The whole traversal as a function of its inputs (lines 26-56): the     *)
(* triangles one treeTraversal call emits, in the order of the code.      *)
(* ===================================================================== *)
RECURSIVE treeTraversal(_, _, _, _, _)
RECURSIVE childrenFrom(_, _, _, _, _, _)

cubeTriangles(pos, fld, iso, res) ==
  [j \in 1 .. buildCube(pos, fld, iso, res) |-> Triangle(pos, j)]

treeTraversal(pos, gridSize, fld, iso, res) ==
  IF pruneTest(pos, gridSize, fld, iso, res) THEN << >>
  ELSE IF gridSize = gridSizeCutoff THEN cubeTriangles(pos, fld, iso, res)
  ELSE childrenFrom(pos, gridSize, fld, iso, res, 1)

childrenFrom(pos, gridSize, fld, iso, res, i) ==
  IF i > 8 THEN << >>
  ELSE treeTraversal(newPos(pos, gridSize, i), halfGridSizeOf(gridSize),
                     fld, iso, res)
       \o childrenFrom(pos, gridSize, fld, iso, res, i + 1)

(* ===================================================================== *)
(* Claims                                                                 *)
(* ===================================================================== *)
\* the unit cells of the cell (pos, gridSize), by their origins
UnitCellsOf(pos, gridSize) ==
  LET n == gridSize \div Unit
  IN  {<<pos[1] + Unit * x, pos[2] + Unit * y, pos[3] + Unit * z>> :
         x \in 0 .. n - 1, y \in 0 .. n - 1, z \in 0 .. n - 1}

\* the sum of the buildCube counts of a set of unit cells: the number of
\* pairs (cell, j) with j among the cell's triangles
SumCubes(cells) ==
  Cardinality(UNION {{c} \X (1 .. buildCube(c, field, mIsoLevel,
                                             mGridResolution)) : c \in cells})

\* C1: the count marchCubes returns equals the sum of the buildCube counts
\* of all unit cells of the grid, built one after the other with no pruning;
\* and every cell about to be pruned holds no unit cell with a non-zero
\* buildCube count.
C1_PruningPreservesCount ==
  /\ pc = "done" =>
       result = SumCubes(UnitCellsOf(sc_vertexNormPos[1], mGridSize * Unit))
  /\ (Running /\ Top.at = "test"
        /\ pruneTest(Top.pos, Top.gridSize, field, mIsoLevel,
                     mGridResolution)) =>
       \A c \in UnitCellsOf(Top.pos, Top.gridSize) :
          buildCube(c, field, mIsoLevel, mGridResolution) = 0

\* a finished build that pruned a cell and still found triangles
C1_Witness ==
  pc = "done" /\ calls.pruned > 0 /\ result > 0 /\ mGridSize > 1

(* ------------------------------- C2 ----------------------------------- *)
\* the squared field value at the centre of frame f's cell
C2_CentreSq(f) ==
  evaluateFieldAt(<<((2 * f.pos[1] + f.gridSize) * mGridResolution) \div 2,
                    ((2 * f.pos[2] + f.gridSize) * mGridResolution) \div 2,
                    ((2 * f.pos[3] + f.gridSize) * mGridResolution) \div 2>>,
                  field)

\* 4 * (centre value)^2 - 4 * isoLevel^2 - 3 * (world edge)^2
C2_Excess(f) ==
  4 * C2_CentreSq(f) - 4 * mIsoLevel * mIsoLevel
  - 3 * (f.gridSize * mGridResolution) * (f.gridSize * mGridResolution)

\* 4 * sqrt(3) * isoLevel * (world edge), squared
C2_CrossSq(f) ==
  48 * (mIsoLevel * f.gridSize * mGridResolution)
     * (mIsoLevel * f.gridSize * mGridResolution)

\* centre value > isoLevel + (sqrt(3)/2) * world edge
C2_Above(f) ==
  IF C2_Excess(f) <= 0 THEN FALSE
  ELSE IF C2_Excess(f) >= 46341 THEN TRUE
  ELSE C2_Excess(f) * C2_Excess(f) > C2_CrossSq(f)

\* centre value = isoLevel + (sqrt(3)/2) * world edge
C2_Tie(f) == C2_Excess(f) = 0 /\ C2_CrossSq(f) = 0

\* C2: a treeTraversal call at its prune test returns 0, with no buildCube
\* call, no child call and no triangle, exactly when the centre value is
\* strictly above isoLevel + (sqrt(3)/2) * gridSize * gridResolution;
\* otherwise (a tie included) the cell is processed: built when it is a unit
\* cell, subdivided when it is larger.
C2_PruneExactlyAbove ==
  [][(Running /\ Top.at = "test") =>
       IF C2_Above(Top)
       THEN /\ Len(stack') = Len(stack) - 1
            /\ calls'.pruned = calls.pruned + 1
            /\ calls'.buildCube = calls.buildCube
            /\ calls'.traversal = calls.traversal
            /\ mTriangles' = mTriangles
            /\ IF Len(stack) = 1
               THEN result' = 0 /\ pc' = "done"
               ELSE stack'[Len(stack')].totalTriangles
                      = stack[Len(stack) - 1].totalTriangles
       ELSE /\ Len(stack') = Len(stack)
            /\ calls'.pruned = calls.pruned
            /\ stack'[Len(stack)].at =
                 (IF Top.gridSize = Unit THEN "cube" ELSE "loop")]_vars

\* a cell whose centre value equals the threshold, being processed
C2_Witness ==
  \E d \in 1 .. Len(stack) : stack[d].at # "test" /\ C2_Tie(stack[d])

(* ------------------------------- C3 ----------------------------------- *)
Log2(n) == CHOOSE k \in 0 .. MaxLog2 + 2 : 2 ^ k = n

C3_Levels ==
  /\ Len(stack) - 1 <= Log2(mGridSize)
  /\ calls.depth <= Log2(mGridSize)
  /\ calls.buildCube > 0 => calls.depth = Log2(mGridSize)
  /\ \A d \in 1 .. Len(stack) :
       /\ stack[d].gridSize * 2 ^ (d - 1) = mGridSize * Unit
       /\ stack[d].at = "cube" =>
            stack[d].gridSize = Unit /\ d - 1 = Log2(mGridSize)

\* the nodes of the full octree of a grid of edge n
C3_Nodes(n) == (8 ^ (Log2(n) + 1) - 1) \div 7

\* C3: for a power-of-two grid size N the traversal terminates (a running
\* build always has a next step, and it takes at most 8 steps for each of
\* the (8^(log2(N)+1) - 1)/7 cells of the full octree), the recursion never
\* goes deeper than log2(N) levels below the root, a cell at level d has
\* edge N / 2^d, and buildCube is invoked only on cells of edge 1, which
\* lie exactly log2(N) levels below the root.
C3_TerminatesAtLog2 ==
  /\ C3_Levels
  /\ Running => ENABLED Step
  /\ calls.steps <= 8 * C3_Nodes(mGridSize)
  /\ pc = "running" => Len(stack) > 0

\* buildCube running on a unit cell below the root
C3_Witness ==
  Running /\ mGridSize > 2 /\ Top.at = "cube" /\ Top.gridSize = Unit

(* ------------------------------- C4 ----------------------------------- *)
\* C4 as stated: with grid size 1 every build makes exactly one buildCube
\* call and no recursive treeTraversal call.
C4_Original ==
  (mGridSize = 1 /\ pc = "done") =>
     calls.buildCube = 1 /\ calls.traversal = 1

\* C4 amended: with grid size 1 a build makes no recursive treeTraversal
\* call and at most one buildCube call, on the root cell: exactly one when
\* the root cell is not pruned, none when it is.
C4_GridSizeOne ==
  mGridSize = 1 =>
    /\ calls.traversal <= 1
    /\ calls.buildCube <= 1
    /\ Len(stack) <= 1
    /\ Running => Top.pos = <<0, 0, 0>> /\ Top.gridSize = Unit
    /\ pc = "done" =>
         /\ calls.traversal = 1
         /\ calls.buildCube =
              (IF C2_Above(Frame(<<0, 0, 0>>, Unit)) THEN 0 ELSE 1)

\* a finished build of grid size 1 that built its root cell
C4_Witness == mGridSize = 1 /\ pc = "done" /\ calls.buildCube = 1

(* ------------------------------- C5 ----------------------------------- *)
\* C5: with an empty point set the root cell is pruned: no child is
\* visited, buildCube and emitTriangle are never called, the buffer stays
\* empty, the build can always take its next step and it returns 0.
C5_EmptyPointSet ==
  field = << >> =>
    /\ calls.traversal <= 1
    /\ calls.buildCube = 0
    /\ calls.emit = 0
    /\ mTriangles = << >>
    /\ Len(stack) <= 1
    /\ Running => Top.at = "test" /\ ENABLED Prune
    /\ pc = "done" => result = 0 /\ calls.pruned = 1 /\ calls.returned = 1

\* a finished build of a larger grid with no points
C5_Witness ==
  field = << >> /\ pc = "done" /\ mGridSize > 1 /\ mIsoLevel > 0

(* ------------------------------- C6 ----------------------------------- *)
\* C6: at an internal node the 8 child calls are independent tasks and the
\* parent sums their results only at a join after all 8 have completed: no
\* child result is in the parent's total while a sibling has yet to run.
C6_JoinAfterAllChildren ==
  \A d \in 1 .. Len(stack) :
    (stack[d].at = "loop" /\ stack[d].i > 0) => stack[d].i = 8

(* ------------------------------- C7 ----------------------------------- *)
\* the triangles of the emitTriangle calls that have stored their element:
\* those of the completed calls and of the call about to leave the region
C7_Stored ==
  {ThreadTriangle(c[1], c[2]) :
     c \in {tk \in Threads \X (1 .. EmitCalls) :
              \/ tk[2] > todo[tk[1]]
              \/ tk[2] = todo[tk[1]] /\ tpc[tk[1]] = "leave"}}

\* C7: under any interleaving of concurrent emitTriangle calls at most one
\* thread is inside the append, and the buffer holds, behind what it held
\* before, the triangle of every call that has appended, each exactly once.
C7_EmitTriangleSafe ==
  /\ Cardinality({t \in Threads : tpc[t] \in {"size", "store", "leave"}}) <= 1
  /\ Len(mTriangles) = calls.start + Cardinality(C7_Stored)
  /\ {mTriangles[i] : i \in (calls.start + 1) .. Len(mTriangles)} = C7_Stored
  /\ \A i \in 1 .. calls.start : mTriangles[i] = Triangle(<<0, 0, 0>>, 1)

\* all calls of all threads have completed
C7_Witness ==
  /\ \A t \in Threads : todo[t] = 0 /\ tpc[t] = "idle"
  /\ Len(mTriangles) = calls.start + NumThreads * EmitCalls

(* ------------------------------- C8 ----------------------------------- *)
\* C8: the buffer is empty when a build starts, and when marchCubes has
\* returned its length is the returned count, also on a second build of
\* the same builder.
C8_BufferOfThisBuild ==
  /\ pc = "running" => calls.start = 0
  /\ pc = "done" => Len(mTriangles) = result

(* ------------------------------- C9 ----------------------------------- *)
BagOfSeq(sq) ==
  [x \in {sq[i] : i \in DOMAIN sq} |->
     Cardinality({i \in DOMAIN sq : sq[i] = x})]

\* the triangles the running or last build has appended
AppendedByBuild == SubSeq(mTriangles, calls.start + 1, Len(mTriangles))

\* what treeTraversal on the root cell emits, as a function of the inputs
RootTraversal ==
  treeTraversal(sc_vertexNormPos[1], mGridSize * Unit, field, mIsoLevel,
                mGridResolution)

C10_AtReturn ==
  /\ stack = << >>
  /\ calls.returned = calls.traversal
  /\ calls.cubeReturned = calls.buildCube
  /\ calls.emit = calls.cubeSum
  /\ result = calls.cubeSum
  /\ Len(mTriangles) = calls.start + calls.emit

\* C10: when marchCubes returns, every treeTraversal, buildCube and
\* emitTriangle call it started has completed and the value returned is the
\* sum of all buildCube counts; while no marchCubes call is running the
\* buffer does not change.
C10_Synchronous ==
  [][/\ pc' = "done" => C10_AtReturn'
     /\ pc # "running" => mTriangles' = mTriangles
     /\ (pc = "running" /\ pc' = "done") => mTriangles' = mTriangles]_vars

\* a finished build with recursive calls and triangles from several cells
C10_Witness ==
  pc = "done" /\ calls.traversal > 1 /\ calls.buildCube > 1 /\ result > 1

(* ------------------------------- C11 ---------------------------------- *)
\* every frame below the top one waits, inside its loop, for the call of
\* its own next child, which is the frame right above it
C11_WaitsOnOwnChild ==
  \A d \in 1 .. Len(stack) - 1 :
    /\ stack[d].at = "loop"
    /\ stack[d].i < 8
    /\ stack[d + 1].pos = newPos(stack[d].pos, stack[d].gridSize,
                                 stack[d].i + 1)
    /\ stack[d + 1].gridSize = halfGridSizeOf(stack[d].gridSize)

\* C11: a traversal waits only for the call of its own child, no thread is
\* held in the emitTriangle critical region, a running build always has a
\* step to take, and under fair scheduling of the calling thread every
\* started build of a power-of-two grid returns.
C11_RunsToCompletion ==
  /\ [](C11_WaitsOnOwnChild /\ critical = 0 /\ (Running => ENABLED Step))
  /\ ((pc = "running") ~> (pc = "done"))

\* a build that has returned after recursing to the unit cells
C11_Witness ==
  pc = "done" /\ mGridSize > 1 /\ calls.depth = Log2(mGridSize)
  /\ calls.emit > 0

(* ------------------------------- C12 ---------------------------------- *)
\* C12: a treeTraversal call on a cell that satisfies the prune condition
\* returns at once with the value 0 (nothing is added to the caller's
\* total, or marchCubes returns 0), calls neither buildCube nor
\* emitTriangle, starts no child and leaves the triangle buffer as it was.
C12_PrunedCellHasNoEffect ==
  [][(Running /\ Top.at = "test" /\ C2_Above(Top)) =>
       /\ mTriangles' = mTriangles
       /\ calls'.emit = calls.emit
       /\ calls'.buildCube = calls.buildCube
       /\ calls'.cubeSum = calls.cubeSum
       /\ calls'.traversal = calls.traversal
       /\ calls'.returned = calls.returned + 1
       /\ IF Len(stack) = 1
          THEN stack' = << >> /\ result' = 0
          ELSE stack' = [SubSeq(stack, 1, Len(stack) - 1)
                           EXCEPT ![Len(stack) - 1].i = @ + 1]]_vars

\* a running build that has pruned a cell below the root and has triangles
\* in the buffer
C12_Witness ==
  /\ Running
  /\ calls.pruned > 0
  /\ calls.emit > 0
  /\ mTriangles # << >>

(* ------------------------------- C13 ---------------------------------- *)
\* C13 as stated: a build makes at most (8^(log2(N)+1) - 1)/7 treeTraversal
\* calls, with equality exactly when no cell is pruned.
C13_Original ==
  /\ calls.traversal <= C3_Nodes(mGridSize)
  /\ pc = "done" =>
       ((calls.traversal = C3_Nodes(mGridSize)) <=> (calls.pruned = 0))

\* C13 amended: a build makes at most (8^(log2(N)+1) - 1)/7 treeTraversal
\* calls, with equality exactly when no cell larger than a unit cell is
\* pruned (a pruned unit cell has been called all the same); every cell
\* that is subdivided starts exactly 8 child calls, so the calls of a
\* finished build are the root and 8 for each subdivided cell.
C13_TraversalCount ==
  /\ calls.traversal <= C3_Nodes(mGridSize)
  /\ calls.traversal <= 1 + 8 * calls.subdivided
  /\ \A d \in 1 .. Len(stack) : stack[d].i <= 8
  /\ pc = "done" =>
       /\ calls.traversal = 1 + 8 * calls.subdivided
       /\ (calls.traversal = C3_Nodes(mGridSize)) <=> (calls.prunedLarge = 0)

\* a finished build that called every cell of the octree although it
\* pruned unit cells
C13_Witness ==
  /\ pc = "done"
  /\ mGridSize > 1
  /\ calls.pruned > 0
  /\ calls.traversal = C3_Nodes(mGridSize)

(* ------------------------------- C14 ---------------------------------- *)
\* the cell of frame f is an octree cell of the grid
C14_CellOK(f) ==
  /\ \E k \in 0 .. Log2(mGridSize) : f.gridSize = Unit * 2 ^ k
  /\ \A a \in 1 .. 3 :
       /\ f.pos[a] >= 0
       /\ f.pos[a] % f.gridSize = 0
       /\ f.pos[a] + f.gridSize <= mGridSize * Unit

\* the origins and the edge of the 8 children of frame f's cell
C14_ChildOrigins(f) ==
  {<<f.pos[1] + (f.gridSize \div 2) * sc_vertexNormPos[i][1],
     f.pos[2] + (f.gridSize \div 2) * sc_vertexNormPos[i][2],
     f.pos[3] + (f.gridSize \div 2) * sc_vertexNormPos[i][3]>> : i \in 1 .. 8}

\* the 8 children are distinct cells of half the edge that tile the cell:
\* together they hold every unit cell of it, and no unit cell twice
C14_ChildrenTile(f) ==
  /\ Cardinality(C14_ChildOrigins(f)) = 8
  /\ UNION {UnitCellsOf(o, f.gridSize \div 2) : o \in C14_ChildOrigins(f)}
       = UnitCellsOf(f.pos, f.gridSize)
  /\ 8 * Cardinality(UnitCellsOf(f.pos, f.gridSize \div 2))
       = Cardinality(UnitCellsOf(f.pos, f.gridSize))

\* C14: every visited cell has a power-of-two edge between 1 and N, an
\* origin at non-negative multiples of its edge, and lies inside the grid;
\* a child call is made on the child cell origin + (S/2) * cornerOffset_i
\* of edge S/2, the 8 children are distinct and tile the parent; buildCube
\* is never called twice on a cell, and a build that prunes nothing calls
\* it on each of the N^3 unit cells.
C14_OctreeCells ==
  /\ \A d \in 1 .. Len(stack) : C14_CellOK(stack[d])
  /\ \A d \in 1 .. Len(stack) - 1 :
       /\ stack[d + 1].gridSize * 2 = stack[d].gridSize
       /\ stack[d + 1].pos \in C14_ChildOrigins(stack[d])
       /\ \A a \in 1 .. 3 :
            stack[d + 1].pos[a] =
              stack[d].pos[a]
              + stack[d + 1].gridSize * sc_vertexNormPos[stack[d].i + 1][a]
  /\ (Running /\ Top.at = "loop" /\ Top.i = 0) => C14_ChildrenTile(Top)
  /\ Cardinality(calls.cubes) = calls.buildCube
  /\ calls.cubes \subseteq UnitCellsOf(<<0, 0, 0>>, mGridSize * Unit)
  /\ (pc = "done" /\ calls.pruned = 0) =>
       /\ calls.cubes = UnitCellsOf(<<0, 0, 0>>, mGridSize * Unit)
       /\ calls.buildCube = mGridSize * mGridSize * mGridSize

\* a finished build of a larger grid that pruned nothing
C14_Witness ==
  /\ pc = "done"
  /\ mGridSize > 1
  /\ calls.pruned = 0
  /\ calls.buildCube = mGridSize * mGridSize * mGridSize

(* ------------------------------- C15 ---------------------------------- *)
\* the squared Euclidean distance from the position of the call to point p
C15_DistSq(p) ==
  (ev.pos[1] - p[1]) ^ 2 + (ev.pos[2] - p[2]) ^ 2 + (ev.pos[3] - p[3]) ^ 2

\* the value returned (as its square) is the least squared distance to a
\* point of the set, and the maximum value when the set is empty
C15_Returned ==
  ev.called =>
    IF field = << >> THEN ev.value = FltMax
    ELSE /\ \A k \in DOMAIN field : ev.value <= C15_DistSq(field[k])
         /\ \E k \in DOMAIN field : ev.value = C15_DistSq(field[k])

\* C15: evaluateFieldAt returns the square root of the least squared
\* distance from pos to a point of the set (at most the distance to every
\* point, and the distance to one of them), the square root of the maximum
\* value for the empty set, and changes neither the point set nor the
\* triangle buffer.
C15_EvaluateFieldAt ==
  [][C15_Returned' /\ field' = field /\ mTriangles' = mTriangles]_vars

\* a call on two points where the second one is the nearer
C15_Witness ==
  /\ ev.called
  /\ Len(field) = 2
  /\ mTriangles # << >>
  /\ C15_DistSq(field[2]) < C15_DistSq(field[1])
  /\ ev.value = C15_DistSq(field[2])

(* ------------------------------- C16 ---------------------------------- *)
\* C16: buildCube is reached only through the exact test gridSize == 1, so
\* on a grid whose edge size is not a power of two every visited cell has
\* the edge mGridSize / 2^depth, which is never 1; buildCube is never
\* called and no triangle is emitted; a build that returns returns 0, all
\* the cells it did not subdivide having been pruned; and a cell that is not
\* pruned is subdivided, however small it is.
C16_NonPowerOfTwoGrid ==
  (pc # "idle" /\ ~IsPowerOfTwo(mGridSize)) =>
    /\ \A d \in DOMAIN stack :
         /\ stack[d].gridSize * 2 ^ (d - 1) = mGridSize * Unit
         /\ stack[d].gridSize # gridSizeCutoff
         /\ stack[d].at # "cube"
         /\ d < Len(stack) => stack[d].at = "loop"
    /\ calls.buildCube = 0
    /\ calls.emit = 0
    /\ mTriangles = << >>
    /\ pc = "done" =>
         /\ result = 0
         /\ calls.traversal = calls.pruned + calls.subdivided
    /\ (/\ Running
        /\ Top.at = "test"
        /\ ~pruneTest(Top.pos, Top.gridSize, field, mIsoLevel,
                      mGridResolution)) => ENABLED Subdivide

\* a chain of cells none of which was pruned, subdivided past the edge 1
\* down to the last level followed
C16_Witness ==
  /\ Running
  /\ ~IsPowerOfTwo(mGridSize)
  /\ calls.pruned = 0
  /\ Len(stack) = MaxDepth + 1
  /\ Top.at = "loop"
  /\ Top.gridSize < gridSizeCutoff
  /\ stack[1].gridSize > gridSizeCutoff

====
